---- MODULE Spec2Model ----
(***************************************************************************)
(* Two independent programs of the repository.                             *)
(*                                                                         *)
(*   posix/fork.c        the fork demonstrator: a parent and the child it  *)
(*                       forks, the operating system's process table, the  *)
(*                       stdio buffer of each process and the terminal     *)
(*                       both write to.          Spec, FairSpec            *)
(*   gdb/count_infinite.c  the busy counter.     SpecCount                 *)
(*                                                                         *)
(* Environment of fork.c.  The operating system fails exactly where the    *)
(* code tests for a failure: getpid at lines 81 and 114, fork at line 95,  *)
(* and a child that a signal terminates (the WIFEXITED test of line 139).  *)
(* print_pid does not test getpid, which POSIX defines as always           *)
(* successful, and wait's own result is not tested either: both succeed.   *)
(* assert is compiled in (no NDEBUG).                                      *)
(***************************************************************************)
EXTENDS Integers, Sequences, FiniteSets, TLC

VARIABLES
    mode,       \* buffering mode of stdout, fixed when the program starts
    shell,      \* pid of the process that started the program
    ospid,      \* ospid[p]: the pid the operating system gave process p
    term,       \* term[p]: how far process p is in its life
    reaped,     \* the parent's wait has collected the child
    mem,        \* mem[p]: the locals of main in process p (i, pid, ppid, status)
    pc,         \* pc[p]: the statement process p executes next
    half,       \* half[p]: which of print_pid's two printf calls is next
    buf,        \* buf[p]: the unflushed data of stdout in process p
    terminal,   \* what has reached the terminal, in order
    cause,      \* cause[p]: the branch that ended process p
    i,          \* count_infinite.c: the counter
    n,          \* count_infinite.c: increments executed, <<n \div PERIOD, n % PERIOD>>
    out,        \* count_infinite.c: the lines printed
    run         \* count_infinite.c: "running", or "trapped" by an overflow trap

fvars == <<mode, shell, ospid, term, reaped, mem, pc, half, buf, terminal, cause>>
cvars == <<i, n, out, run>>
vars == <<fvars, cvars>>

----------------------------------------------------------------------------
(* Bounds *)

\* User pids are 2..MaxPid.
MaxPid == 4
\* The busy counter is followed until it has printed MaxLines lines.
MaxLines == 120

----------------------------------------------------------------------------
(* posix/fork.c *)

EXIT_SUCCESS == 0
EXIT_FAILURE == 1
SIGABRT == 6
SIGKILL == 9
\* An orphan is adopted by init.
InitPid == 1

Procs == {"parent", "child"}
Modes == {"unbuffered", "line", "full"}
UserPids == 2..MaxPid
\* What an uninitialised local may hold.
Garbage == {0, 7}

Unborn == [how |-> "unborn", code |-> 0, sig |-> 0]
Running == [how |-> "running", code |-> 0, sig |-> 0]
Exited(c) == [how |-> "exited", code |-> c, sig |-> 0]
Signaled(s) == [how |-> "signaled", code |-> 0, sig |-> s]

Alive(p) == term[p].how = "running"
Terminated(p) == term[p].how \in {"exited", "signaled"}

\* The tag print_pid is called with at each statement that calls it.
TagOf ==
    [before_fork |-> "before fork",
     after_fork  |-> "after fork",
     inside      |-> "inside (pid == 0)",
     after_if    |-> "after (pid == 0)",
     after_wait  |-> "after wait"]

PrintPoints == DOMAIN TagOf

getpid(p) == ospid[p]

getppid(p) ==
    IF p = "parent" THEN shell
    ELSE IF Alive("parent") THEN ospid["parent"] ELSE InitPid

\* One printf's worth of output.  by is the writing process; tag pieces end
\* in a space, every other piece in a newline.
Piece(p, part, tag, pidv, ppidv) ==
    [by |-> p, part |-> part, tag |-> tag, pid |-> pidv, ppid |-> ppidv,
     nl |-> part # "tag"]

\* The stdio state a process acts on: its stdout buffer and the terminal.
Stdio(p) == [b |-> buf[p], t |-> terminal]

\* printf: to the terminal at once (unbuffered), at the newline (line
\* buffered), or kept (fully buffered: the whole output fits the buffer).
Printf(st, piece) ==
    CASE mode = "unbuffered" -> [b |-> st.b, t |-> Append(st.t, piece)]
      [] mode = "line" ->
            IF piece.nl THEN [b |-> <<>>, t |-> st.t \o Append(st.b, piece)]
            ELSE [b |-> Append(st.b, piece), t |-> st.t]
      [] mode = "full" -> [b |-> Append(st.b, piece), t |-> st.t]

\* perror writes to stderr, which is unbuffered.
Perror(st, p, msg) == [b |-> st.b, t |-> Append(st.t, Piece(p, "perror", msg, 0, 0))]

FlushStreams_Missing(st) == st

\* fflush(stdout); fflush(stderr);
FlushStreams(st) == [b |-> <<>>, t |-> st.t \o st.b]

\* exit, and the return from main, flush the open streams.
ExitFlush(st) == [b |-> <<>>, t |-> st.t \o st.b]

\* A process killed by a signal loses what it had not flushed.
Discard(st) == [b |-> <<>>, t |-> st.t]

SetStdio(p, st) ==
    /\ buf' = [buf EXCEPT ![p] = st.b]
    /\ terminal' = st.t

\* exit(code)
Exit(p, st, code, why) ==
    /\ SetStdio(p, ExitFlush(st))
    /\ term' = [term EXCEPT ![p] = Exited(code)]
    /\ cause' = [cause EXCEPT ![p] = why]
    /\ pc' = [pc EXCEPT ![p] = "done"]

\* A failed assert: the diagnostic on stderr, then abort().  Whether abort
\* flushes the open streams is implementation-defined.
AssertFail(p, st, why) ==
    \E flush \in BOOLEAN :
        LET said == [b |-> st.b, t |-> Append(st.t, Piece(p, "assert", why, 0, 0))]
        IN  /\ SetStdio(p, IF flush THEN ExitFlush(said) ELSE Discard(said))
            /\ term' = [term EXCEPT ![p] = Signaled(SIGABRT)]
            /\ cause' = [cause EXCEPT ![p] = why]
            /\ pc' = [pc EXCEPT ![p] = "done"]

PerrorExit_Abort(p, msg, why) == AssertFail(p, Perror(Stdio(p), p, msg), why)

\* perror(msg); exit(EXIT_FAILURE);
PerrorExit(p, msg, why) == Exit(p, Perror(Stdio(p), p, msg), EXIT_FAILURE, why)

\* perror("fork"); assert(false);
PerrorAssertFalse(p, msg, why) == AssertFail(p, Perror(Stdio(p), p, msg), why)

Branch_NoTest(pidv) == "inside"

\* if (pid == 0) { ... exit } ...
Branch(pidv) == IF pidv = 0 THEN "inside" ELSE "after_if"

\* The statement after a call of print_pid.
AfterPrint(at, pidv) ==
    CASE at = "before_fork" -> "fflush"
      [] at = "after_fork"  -> Branch(pidv)
      [] at = "inside"      -> "child_getpid"
      [] at = "after_if"    -> "wait"
      [] at = "after_wait"  -> "fork_return"

\* The status wait stores for a terminated child: the exit code in bits
\* 8..15, the terminating signal in bits 0..6.
WaitStatus(t) == IF t.how = "exited" THEN (t.code % 256) * 256 ELSE t.sig

WIFEXITED(status) == status % 128 = 0

WEXITSTATUS(status) == (status \div 256) % 256

WaitReady_NoBlock == TRUE

WaitReady_SignalOnly == term["child"].how = "signaled"

\* wait blocks until a child has terminated; one that terminated earlier
\* is a zombie and is collected at once.
WaitReady == Terminated("child")

Increment_Shared(m, p) == [q \in Procs |-> [m[q] EXCEPT !.i = @ + 1]]

\* i++ in process p
Increment(m, p) == [m EXCEPT ![p].i = @ + 1]

ChildRunnable_AfterParent == Alive("child") /\ pc["parent"] \in {"wait", "done"}

\* The child runs whenever the scheduler picks it.
ChildRunnable == Alive("child")

ForkInit ==
    /\ mode \in Modes
    /\ shell \in UserPids
    /\ \E self \in UserPids \ {shell} :
          ospid = [parent |-> self, child |-> 0]
    /\ term = [parent |-> Running, child |-> Unborn]
    /\ reaped = FALSE
    /\ \E gi \in Garbage, gs \in Garbage, gp \in Garbage, gpp \in Garbage :
          mem = [p \in Procs |-> [i |-> gi, pid |-> gp, ppid |-> gpp, status |-> gs]]
    /\ pc = [parent |-> "start", child |-> "unborn"]
    /\ half = [p \in Procs |-> 1]
    /\ buf = [p \in Procs |-> <<>>]
    /\ terminal = <<>>
    /\ cause = [p \in Procs |-> "none"]

\* lines 80-85: i = 0; ppid = getpid(); if (ppid == -1) ...
Start ==
    /\ Alive("parent") /\ pc["parent"] = "start"
    /\ \E r \in {getpid("parent"), -1} :
          /\ mem' = [mem EXCEPT !["parent"].i = 0, !["parent"].ppid = r]
          /\ IF r = -1
             THEN PerrorExit("parent", "getpid", "getpid")
             ELSE /\ pc' = [pc EXCEPT !["parent"] = "before_fork"]
                  /\ UNCHANGED <<buf, terminal, term, cause>>
    /\ UNCHANGED <<cvars, mode, shell, ospid, reaped, half>>

PidsPiece_Swapped(p) == Piece(p, "pids", TagOf[pc[p]], getppid(p), getpid(p))

\* The arguments of line 69's printf.
PidsPiece(p) == Piece(p, "pids", TagOf[pc[p]], getpid(p), getppid(p))

\* line 68: printf("%s ", msg);
PrintTag(p) ==
    /\ Alive(p) /\ pc[p] \in PrintPoints /\ half[p] = 1
    /\ p = "child" => ChildRunnable
    /\ SetStdio(p, Printf(Stdio(p), Piece(p, "tag", TagOf[pc[p]], 0, 0)))
    /\ half' = [half EXCEPT ![p] = 2]
    /\ UNCHANGED <<cvars, mode, shell, ospid, term, reaped, mem, pc, cause>>

\* line 69: printf("pid=%jd ppid=%jd\n", getpid(), getppid());
PrintPids(p) ==
    /\ Alive(p) /\ pc[p] \in PrintPoints /\ half[p] = 2
    /\ p = "child" => ChildRunnable
    /\ SetStdio(p, Printf(Stdio(p), PidsPiece(p)))
    /\ half' = [half EXCEPT ![p] = 1]
    /\ pc' = [pc EXCEPT ![p] = AfterPrint(pc[p], mem[p].pid)]
    /\ UNCHANGED <<cvars, mode, shell, ospid, term, reaped, mem, cause>>

\* lines 90-91
Fflush ==
    /\ Alive("parent") /\ pc["parent"] = "fflush"
    /\ SetStdio("parent", FlushStreams(Stdio("parent")))
    /\ pc' = [pc EXCEPT !["parent"] = "fork"]
    /\ UNCHANGED <<cvars, mode, shell, ospid, term, reaped, mem, half, cause>>

\* lines 95-99, fork succeeds: the child is a copy of the parent, its
\* memory and its stdout buffer included, and differs in what fork returned.
ForkOk ==
    /\ Alive("parent") /\ pc["parent"] = "fork"
    /\ \E c \in UserPids \ {shell, ospid["parent"]} :
          /\ ospid' = [ospid EXCEPT !["child"] = c]
          /\ mem' = [parent |-> [mem["parent"] EXCEPT !.pid = c],
                     child  |-> [mem["parent"] EXCEPT !.pid = 0]]
    /\ term' = [term EXCEPT !["child"] = Running]
    /\ buf' = [buf EXCEPT !["child"] = buf["parent"]]
    /\ pc' = [parent |-> "after_fork", child |-> "after_fork"]
    /\ half' = [parent |-> 1, child |-> 1]
    /\ UNCHANGED <<cvars, mode, shell, reaped, terminal, cause>>

\* lines 95-99, fork fails: pid == -1, perror("fork"); assert(false);
ForkFail ==
    /\ Alive("parent") /\ pc["parent"] = "fork"
    /\ mem' = [mem EXCEPT !["parent"].pid = -1]
    /\ PerrorAssertFalse("parent", "fork", "fork")
    /\ UNCHANGED <<cvars, mode, shell, ospid, reaped, half>>

\* lines 114-119: pid = getpid(); if (pid == -1) ...; assert(pid != ppid);
ChildGetpid ==
    /\ ChildRunnable /\ pc["child"] = "child_getpid"
    /\ \E r \in {getpid("child"), -1} :
          /\ mem' = [mem EXCEPT !["child"].pid = r]
          /\ IF r = -1
             THEN PerrorExit("child", "getpid", "getpid")
             ELSE IF r # mem["child"].ppid
             THEN /\ pc' = [pc EXCEPT !["child"] = "incr"]
                  /\ UNCHANGED <<buf, terminal, term, cause>>
             ELSE AssertFail("child", Stdio("child"), "pid_eq")
    /\ UNCHANGED <<cvars, mode, shell, ospid, reaped, half>>

\* line 122: i++;
ChildIncr ==
    /\ ChildRunnable /\ pc["child"] = "incr"
    /\ mem' = Increment(mem, "child")
    /\ pc' = [pc EXCEPT !["child"] = "exit"]
    /\ UNCHANGED <<cvars, mode, shell, ospid, term, reaped, half, buf, terminal, cause>>

ChildExitCode_Failure == EXIT_FAILURE

\* The code the child exits with (line 125).
ChildExitCode == EXIT_SUCCESS

\* line 125: exit(EXIT_SUCCESS);
ChildExit ==
    /\ ChildRunnable /\ pc["child"] = "exit"
    /\ Exit("child", Stdio("child"), ChildExitCode, "normal")
    /\ UNCHANGED <<cvars, mode, shell, ospid, reaped, mem, half>>

\* lines 138-144: wait(&status); the WIFEXITED test and its two asserts.
Wait ==
    /\ Alive("parent") /\ pc["parent"] = "wait"
    /\ WaitReady
    /\ reaped' = TRUE
    /\ LET status == WaitStatus(term["child"])
       IN  /\ mem' = [mem EXCEPT !["parent"].status = status]
           /\ IF WIFEXITED(status)
              THEN IF status = WEXITSTATUS(EXIT_SUCCESS)
                   THEN /\ pc' = [pc EXCEPT !["parent"] = "after_wait"]
                        /\ UNCHANGED <<buf, terminal, term, cause>>
                   ELSE AssertFail("parent", Stdio("parent"), "status")
              ELSE PerrorAssertFalse("parent", "execl abnormal exit", "abnormal")
    /\ UNCHANGED <<cvars, mode, shell, ospid, half>>

\* line 154: printf("fork() return = %jd\n", (intmax_t)pid);
PrintForkReturn ==
    /\ Alive("parent") /\ pc["parent"] = "fork_return"
    /\ SetStdio("parent",
                Printf(Stdio("parent"),
                       Piece("parent", "ret", "fork() return", mem["parent"].pid, 0)))
    /\ pc' = [pc EXCEPT !["parent"] = "assert_i"]
    /\ UNCHANGED <<cvars, mode, shell, ospid, term, reaped, mem, half, cause>>

\* lines 157-159: assert(i == 0); return EXIT_SUCCESS;
Finish ==
    /\ Alive("parent") /\ pc["parent"] = "assert_i"
    /\ IF mem["parent"].i = 0
       THEN Exit("parent", Stdio("parent"), EXIT_SUCCESS, "normal")
       ELSE AssertFail("parent", Stdio("parent"), "counter")
    /\ UNCHANGED <<cvars, mode, shell, ospid, reaped, mem, half>>

\* A signal terminates the child (the case in which WIFEXITED is false).
KillChild ==
    /\ Alive("child")
    /\ SetStdio("child", Discard(Stdio("child")))
    /\ term' = [term EXCEPT !["child"] = Signaled(SIGKILL)]
    /\ cause' = [cause EXCEPT !["child"] = "killed"]
    /\ pc' = [pc EXCEPT !["child"] = "done"]
    /\ UNCHANGED <<cvars, mode, shell, ospid, reaped, mem, half>>

ParentNext ==
    \/ Start
    \/ PrintTag("parent")
    \/ PrintPids("parent")
    \/ Fflush
    \/ ForkOk
    \/ ForkFail
    \/ Wait
    \/ PrintForkReturn
    \/ Finish

ChildNext ==
    \/ PrintTag("child")
    \/ PrintPids("child")
    \/ ChildGetpid
    \/ ChildIncr
    \/ ChildExit


\* The busy counter does not run beside the fork demonstrator.
CountIdle == i = 0 /\ n = <<0, 0>> /\ out = <<>> /\ run = "idle"

Init == ForkInit /\ CountIdle

Next == ParentNext \/ ChildNext \/ KillChild

Spec == Init /\ [][Next]_vars

\* The scheduler lets every process that can run run.
FairSpec == Spec /\ WF_vars(ParentNext) /\ WF_vars(ChildNext)

----------------------------------------------------------------------------
(* gdb/count_infinite.c *)

PERIOD == 100000000
INT_MAX == 2147483647
INT_MIN == -INT_MAX - 1

\* C's % and / on int, which truncate toward zero (b > 0).
CMod(a, b) ==
    LET m == a % b
    IN  IF a >= 0 \/ m = 0 THEN m ELSE m - b

CDiv(a, b) == (a - CMod(a, b)) \div b

\* The increments counted so far plus d more (0 <= d <= PERIOD), kept as
\* <<quotient, remainder>> by PERIOD.
AddCount(c, d) ==
    IF c[2] + d >= PERIOD THEN <<c[1] + 1, c[2] + d - PERIOD>> ELSE <<c[1], c[2] + d>>

\* How many iterations the loop runs from counter value iv (iv < INT_MAX)
\* up to and including the first whose i++ reaches INT_MAX or a multiple
\* of PERIOD: none before that one prints, none overflows.
Chunk(iv) ==
    LET toMultiple == PERIOD - (iv % PERIOD)
    IN  IF iv <= INT_MAX - toMultiple THEN toMultiple ELSE INT_MAX - iv

\* lines 15-16: if (i % PERIOD == 0) printf("%d\n", i / PERIOD);
PrintIf(o, iv, cnt) ==
    IF CMod(iv, PERIOD) = 0
    THEN Append(o, [val |-> CDiv(iv, PERIOD), at |-> cnt])
    ELSE o

CountInit == i = 0 /\ n = <<0, 0>> /\ out = <<>> /\ run = "running"

\* lines 13-17, Chunk(i) times: the i++ of none of these iterations
\* overflows, and only the last can print.
Iterate ==
    /\ run = "running" /\ Len(out) < MaxLines
    /\ i < INT_MAX
    /\ LET d == Chunk(i)
       IN  /\ i' = i + d
           /\ n' = AddCount(n, d)
           /\ out' = PrintIf(out, i + d, AddCount(n, d))
    /\ UNCHANGED <<run, fvars>>

\* lines 13-17 with i == INT_MAX: i++ overflows a signed int, which is
\* undefined.  A build that wraps goes on with INT_MIN.
OverflowWrap ==
    /\ run = "running" /\ Len(out) < MaxLines
    /\ i = INT_MAX
    /\ i' = INT_MIN
    /\ n' = AddCount(n, 1)
    /\ out' = PrintIf(out, INT_MIN, AddCount(n, 1))
    /\ UNCHANGED <<run, fvars>>

\* The same overflow in a build that traps it: the process is killed.
OverflowTrap ==
    /\ run = "running" /\ Len(out) < MaxLines
    /\ i = INT_MAX
    /\ run' = "trapped"
    /\ UNCHANGED <<i, n, out, fvars>>

\* The fork demonstrator does not run beside the busy counter.
ForkIdle ==
    /\ mode = "idle" /\ shell = 0
    /\ ospid = [p \in Procs |-> 0]
    /\ term = [p \in Procs |-> Unborn]
    /\ reaped = FALSE
    /\ mem = [p \in Procs |-> [i |-> 0, pid |-> 0, ppid |-> 0, status |-> 0]]
    /\ pc = [p \in Procs |-> "unborn"]
    /\ half = [p \in Procs |-> 1]
    /\ buf = [p \in Procs |-> <<>>]
    /\ terminal = <<>>
    /\ cause = [p \in Procs |-> "none"]

InitCount == CountInit /\ ForkIdle

NextCount == Iterate \/ OverflowWrap \/ OverflowTrap

SpecCount == InitCount /\ [][NextCount]_vars

----------------------------------------------------------------------------
(* C1 *)

\* C1: for every k, the k-th line printed by the busy counter is k, and it
\* is printed when the counter has been incremented k * PERIOD times.
C1_KthLineIsK ==
    \A k \in 1..Len(out) : out[k].val = k /\ out[k].at = <<k, 0>>

----------------------------------------------------------------------------
(* Vocabulary of the claims about posix/fork.c *)

\* The positions of the terminal holding a piece of kind part with tag tag.
Shown(part, tag) ==
    {k \in DOMAIN terminal : terminal[k].part = part /\ terminal[k].tag = tag}

\* The complete lines tagged tag on the terminal: the tag and its pid pair.
LinesShown(tag) == Cardinality(Shown("pids", tag))

\* Everything process p has printed: what reached the terminal, then what
\* still sits in its buffer.
Printed(p) == SelectSeq(terminal, LAMBDA x : x.by = p) \o SelectSeq(buf[p], LAMBDA x : x.by = p)

Range(sq) == {sq[k] : k \in DOMAIN sq}

NoneRunning == ~Alive("parent") /\ ~Alive("child")

ParentExitedOk == term["parent"] = Exited(EXIT_SUCCESS)

\* What the locals tell about the queries of the operating system.
ParentGetpidFailed == pc["parent"] # "start" /\ mem["parent"].ppid = -1
ForkFailed == pc["parent"] = "done" /\ ~ParentGetpidFailed /\ term["child"].how = "unborn"
Forked == term["child"].how # "unborn"
ChildGetpidFailed == Forked /\ mem["child"].pid = -1
ChildGetpidOk == Forked /\ mem["child"].pid = ospid["child"]
QueryFailed == ParentGetpidFailed \/ ForkFailed \/ ChildGetpidFailed
ChildKilled == term["child"] = Signaled(SIGKILL)

Aborted(p) == term[p] = Signaled(SIGABRT)
Invariants == {"pid_eq", "status", "abnormal", "counter"}

PostWait == {"after_wait", "fork_return", "assert_i"}
WaitReturned == reaped

IsAfterWaitOutput(x) ==
    x.by = "parent" /\ (x.tag = TagOf["after_wait"] \/ x.part = "ret")

----------------------------------------------------------------------------
(* C2 *)

\* C2 as written: when every process of a run has ended, the terminal
\* shows exactly one "inside" line and exactly one "after wait" line,
\* runs in which getpid or fork failed included.
C2_ExactlyOneInEveryRun ==
    NoneRunning =>
        LinesShown(TagOf["inside"]) = 1 /\ LinesShown(TagOf["after_wait"]) = 1

\* C2 amended: at most one "inside" line, printed by the child, and at
\* most one "after wait" line, printed by the parent, at any time of any
\* run; exactly one of each once the parent has completed with exit code 0.
C2_AtMostOneAndOneOnSuccess ==
    /\ \A part \in {"tag", "pids"} :
          /\ Cardinality(Shown(part, TagOf["inside"])) <= 1
          /\ Cardinality(Shown(part, TagOf["after_wait"])) <= 1
    /\ \A p \in Procs : \A x \in Range(Printed(p)) :
          /\ x.tag = TagOf["inside"] => p = "child"
          /\ x.tag = TagOf["after_wait"] => p = "parent"
    /\ ParentExitedOk =>
          \A part \in {"tag", "pids"} :
              /\ Cardinality(Shown(part, TagOf["inside"])) = 1
              /\ Cardinality(Shown(part, TagOf["after_wait"])) = 1

C2_Witness ==
    /\ ParentExitedOk /\ mode = "full"
    /\ LinesShown(TagOf["inside"]) = 1 /\ LinesShown(TagOf["after_wait"]) = 1

----------------------------------------------------------------------------
(* C3 *)

\* C3 as written: a process that saw getpid or fork fail ends with
\* EXIT_FAILURE, and a process aborts only on a violated invariant.
C3_QueryFailureExitsFailure ==
    /\ ParentGetpidFailed => term["parent"] = Exited(EXIT_FAILURE)
    /\ ForkFailed => term["parent"] = Exited(EXIT_FAILURE)
    /\ ChildGetpidFailed => term["child"] = Exited(EXIT_FAILURE)
    /\ \A p \in Procs : Aborted(p) => cause[p] \in Invariants

\* C3 amended: a process that saw getpid fail ends with EXIT_FAILURE; the
\* parent that saw fork fail aborts (perror, then assert(false)); a process
\* aborts only on a failed fork or a violated invariant.
C3_GetpidExitsForkAborts ==
    /\ ParentGetpidFailed => term["parent"] = Exited(EXIT_FAILURE)
    /\ ChildGetpidFailed => term["child"] = Exited(EXIT_FAILURE)
    /\ ForkFailed => Aborted("parent") /\ cause["parent"] = "fork"
    /\ \A p \in Procs : Aborted(p) => cause[p] \in Invariants \cup {"fork"}
    /\ \A p \in Procs :
          term[p].how = "exited" /\ term[p].code = EXIT_FAILURE => cause[p] = "getpid"

C3_Witness ==
    /\ ChildGetpidFailed /\ term["child"] = Exited(EXIT_FAILURE)
    /\ Aborted("parent") /\ cause["parent"] = "status"

----------------------------------------------------------------------------
(* C4 *)

\* C4: the parent is past its wait only when the child has terminated; its
\* "after wait" and "fork() return" output exists only then, and on the
\* terminal it follows everything the child printed.
C4_WaitBlocksUntilChildEnds ==
    /\ pc["parent"] \in PostWait => Terminated("child")
    /\ reaped => Terminated("child")
    /\ (\E x \in Range(Printed("parent")) : IsAfterWaitOutput(x)) => Terminated("child")
    /\ \A k, j \in DOMAIN terminal :
          IsAfterWaitOutput(terminal[k]) /\ terminal[j].by = "child" => j < k

C4_Witness ==
    /\ mode = "unbuffered"
    /\ \E k \in DOMAIN terminal : terminal[k].part = "ret"
    /\ Shown("pids", TagOf["inside"]) # {}
    /\ \E j \in DOMAIN terminal :
          /\ terminal[j].by = "parent" /\ terminal[j].tag = TagOf["after_if"]
          /\ \A k \in DOMAIN terminal : terminal[k].by = "child" => j < k

----------------------------------------------------------------------------
(* C5 *)

\* C5: once initialised, the parent's i is 0 in every state, whatever the
\* child has done to its own i; the parent's assert(i == 0) never fails.
C5_ParentCounterStaysZero ==
    /\ pc["parent"] # "start" => mem["parent"].i = 0
    /\ cause["parent"] # "counter"

C5_Witness ==
    /\ mem["child"].i = 1 /\ Alive("child")
    /\ Alive("parent") /\ pc["parent"] = "after_fork" /\ mem["parent"].i = 0

----------------------------------------------------------------------------
(* C6 *)

----------------------------------------------------------------------------
(* C7 *)

\* C7: in every buffering mode the child inherits no "before fork" output,
\* and the "before fork" line is on the terminal exactly once from the
\* flush on, the parent's and the child's exits included.
C7_BeforeForkShownOnce ==
    /\ \A x \in Range(buf["child"]) : x.tag # TagOf["before_fork"]
    /\ \A part \in {"tag", "pids"} :
          /\ Cardinality(Shown(part, TagOf["before_fork"])) <= 1
          /\ (~ParentGetpidFailed /\ pc["parent"] \notin {"start", "before_fork", "fflush"})
                => Cardinality(Shown(part, TagOf["before_fork"])) = 1

C7_Witness ==
    /\ mode = "full"
    /\ term["child"] = Exited(EXIT_SUCCESS) /\ ParentExitedOk
    /\ LinesShown(TagOf["before_fork"]) = 1

----------------------------------------------------------------------------
(* C8 *)

----------------------------------------------------------------------------
(* C9 *)

\* C9 as written: in every fair run in which getpid and fork succeed, the
\* child terminates, wait returns and the parent ends with exit code 0.
C9_EndsWithSuccess ==
    <>(QueryFailed \/ (Terminated("child") /\ WaitReturned /\ ParentExitedOk))

\* C9 amended: in every fair run in which fork succeeds, the child
\* terminates, wait returns and the parent terminates; the parent ends with
\* exit code 0 in every fair run in which getpid and fork succeed and no
\* signal kills the child.
C9_WaitReturnsAndParentEnds ==
    /\ Forked ~> (Terminated("child") /\ WaitReturned /\ Terminated("parent"))
    /\ <>(QueryFailed \/ ChildKilled
            \/ (Terminated("child") /\ WaitReturned /\ ParentExitedOk))

C9_Witness ==
    /\ ParentExitedOk /\ WaitReturned /\ term["child"] = Exited(EXIT_SUCCESS)
    /\ ~QueryFailed

----------------------------------------------------------------------------
(* C10 *)

\* C10: while the child runs the parent is alive; every pid pair the child
\* prints shows as ppid the pid of the parent's "before fork" line and as
\* pid the value the parent prints as "fork() return".
C10_ChildShowsParentAndForkReturn ==
    /\ Alive("child") => Alive("parent")
    /\ \A x \in Range(Printed("child")) :
          x.part = "pids" =>
              /\ x.ppid = ospid["parent"]
              /\ \A y \in Range(Printed("parent")) :
                    /\ (y.part = "pids" /\ y.tag = TagOf["before_fork"]) => x.ppid = y.pid
                    /\ y.part = "ret" => x.pid = y.pid

C10_Witness ==
    /\ \E y \in Range(terminal) : y.part = "ret"
    /\ \E x \in Range(terminal) : x.by = "child" /\ x.part = "pids" /\ x.tag = TagOf["after_fork"]
    /\ \E x \in Range(terminal) : x.by = "child" /\ x.part = "pids" /\ x.tag = TagOf["inside"]

====
